---- MODULE Spec2Model ----
(***************************************************************************)
(* Thread consolidation engine of backend/thread_consolidator.py: the CSV  *)
(* loader, the timestamp normaliser, the anchor scan of _detect_threads,   *)
(* the merge and final sort of _create_consolidated_posts, the writer and  *)
(* the main() driver with its STATUS:/ERROR:/SUCCESS: lines.               *)
(*                                                                         *)
(* Time is in whole seconds.  A created_at string is represented by its    *)
(* format, its wall-clock fields (as seconds) and its UTC offset; a text   *)
(* is the sequence of its characters.                                      *)
(***************************************************************************)
EXTENDS Integers, Sequences, FiniteSets, Bags, TLC

\* ------------------------------------------------------------------ bounds
MaxRows == 3
MaxWideRows == 4
MaxRerunRows == 3
MaxRuns == 2
MaxDetectorRows == 3
MaxPermuteRows == 3
MaxDebugRows == 3
MaxPages == 2
MaxPullerRuns == 2
MaxWorkers == 2
MaxStderrPipe == 2

\* ------------------------------------------------- constants of the program
\* main(): ThreadConsolidator(time_window_minutes=2)
time_window_minutes == 2

\* --------------------------------------------------------- input universe
\* created_at strings
Twitter(w, off) == [fmt |-> "twitter", wall |-> w, off |-> off]
IsoFrac(w)      == [fmt |-> "isofrac", wall |-> w, off |-> 0]
Iso(w)          == [fmt |-> "iso", wall |-> w, off |-> 0]
EmptyStamp      == [fmt |-> "empty", wall |-> 0, off |-> 0]
GarbageStamp    == [fmt |-> "garbage", wall |-> 0, off |-> 0]

Walls == {0, 60, 120, 181}
\* values datetime.now() may return, in the order the clock passes them
NowSet == {60, 61, 181, 182}
ClockStart == CHOOSE c \in NowSet : \A d \in NowSet : c <= d

\* a line of the raw CSV under the header tweet_id,created_at,text,...:
\* nfields is the number of fields the line has (csv.DictReader gives the
\* missing ones the value None)
Line(n, id, ca, tx) == [nfields |-> n, tweet_id |-> id, created_at |-> ca, text |-> tx]

\* well-formed lines in the platform format; those of id "3" carry the
\* offset +0100, those of id "2" the offset +0000
PlainLines ==
    {Line(3, "2", Twitter(w, 0), <<"B">>) : w \in Walls} \cup
    {Line(3, "3", Twitter(w, 1), <<"C">>) : w \in Walls}

OddLines ==
    { Line(3, "1", GarbageStamp, <<"A">>),
      Line(3, "2", EmptyStamp, <<" ", "B", " ">>),
      Line(3, "1", Iso(60), <<"A">>),
      Line(3, "3", IsoFrac(181), <<"C">>),
      Line(3, "", Twitter(120, 0), <<"A">>),
      Line(3, " ", Twitter(120, 0), <<"A">>),
      Line(3, "3", Twitter(120, 1), <<" ">>),
      Line(2, "2", Twitter(0, 0), <<>>),
      Line(1, "1", EmptyStamp, <<>>) }

LineSet == PlainLines \cup OddLines

\* longer files over few lines
WideLines ==
    { Line(3, "2", Twitter(400, 0), <<"B">>),
      Line(3, "3", Twitter(400, 1), <<"C">>),
      Line(3, "2", Twitter(120, 0), <<"B">>),
      Line(3, "3", Twitter(0, 1), <<"C">>) }

\* the files of the invocations that are repeated
RerunLines ==
    { Line(3, "2", Twitter(0, 0), <<"B">>),
      Line(3, "3", Twitter(60, 1), <<"C">>),
      Line(3, "3", Twitter(181, 1), <<"C">>),
      Line(3, "1", GarbageStamp, <<"A">>),
      Line(3, "2", EmptyStamp, <<" ", "B", " ">>),
      Line(1, "1", EmptyStamp, <<>>) }

SeqsUpTo(S, n) == UNION {[1..k -> S] : k \in 0..n}

Inputs == SeqsUpTo(LineSet, MaxRows) \cup SeqsUpTo(WideLines, MaxWideRows)

RerunInputs == SeqsUpTo(RerunLines, MaxRerunRows)

\* ------------------------------------------------------------------ state
VARIABLES
    csv_rows,            \* the lines of the input file, in file order
    clock,               \* the last value datetime.now() returned
    pc,                  \* position of main()
    runs,                \* number of invocations of main() so far
    tweets,              \* process_csv: tweets
    threads,             \* process_csv: threads
    standalone_tweets,   \* process_csv: standalone_tweets
    consolidated_posts,  \* process_csv: consolidated_posts
    sort_keys,           \* the keys list.sort computed for consolidated_posts
    outfile,             \* rows of the processed CSV
    written,             \* TRUE once the processed CSV has been written
    stdout,              \* the lines printed by this invocation
    warnings,            \* logger.warning calls of this invocation
    error,               \* the exception main() caught, "" when none
    prev,                \* what the previous invocation produced
    td_pc,               \* position of TwitterThreadDetector.detect_threads
    td_tweets,           \* detect_threads: tweets
    td_thread_groups,    \* detect_threads: thread_groups
    td_detected_threads, \* detect_threads: detected_threads
    td_standalone_tweets,\* detect_threads: standalone_tweets
    td_warnings,         \* self.logger.warning calls of the detector
    dbg_pc,              \* position of debug_higher_tweet
    dbg_tweets,          \* debug_higher_tweet: tweets
    dbg_higher_tweet,    \* debug_higher_tweet: higher_tweet, <<>> for None
    dbg_threads,         \* debug_higher_tweet: threads
    dbg_standalone_tweets, \* debug_higher_tweet: standalone_tweets
    xp_pc,               \* position of x_data_puller.main
    xp_runs,             \* number of invocations of x_data_puller.main so far
    xp_end_date,         \* TRUE when an end date was given
    xp_page,             \* get_user_tweets_by_username: page
    xp_all_tweets,       \* get_user_tweets_by_username: all_tweets
    xp_responses,        \* the pages the API returned to this invocation
    xp_stdout,           \* the SUCCESS or ERROR line x_data_puller.main printed
    raw_file,            \* the raw CSV of the token and start date
    data_pull_status,    \* api_server: the global data_pull_status
    checked,             \* start_data_pull requests past the in_progress test
    workers,             \* the execute_data_pull threads, in order of creation
    cancelled,           \* the workers whose pull cancel_data_pull cancelled
    reply                \* what the last status request was answered

tdvars == <<td_pc, td_tweets, td_thread_groups, td_detected_threads,
            td_standalone_tweets, td_warnings>>

dbgvars == <<dbg_pc, dbg_tweets, dbg_higher_tweet, dbg_threads, dbg_standalone_tweets>>

xpvars == <<xp_pc, xp_runs, xp_end_date, xp_page, xp_all_tweets, xp_responses,
            xp_stdout, raw_file>>

apivars == <<data_pull_status, checked, workers, cancelled, reply>>

\* the variables of the scripts and of the server beside the two detectors
sidevars == <<dbgvars, xpvars, apivars>>

vars == <<csv_rows, clock, pc, runs, tweets, threads, standalone_tweets,
          consolidated_posts, sort_keys, outfile, written, stdout, warnings,
          error, prev, tdvars, sidevars>>

\* -------------------------------------------------------------- utilities
Range(s) == {s[i] : i \in DOMAIN s}

Abs(x) == IF x < 0 THEN -x ELSE x

RECURSIVE SeqToBag(_)
SeqToBag(s) == IF s = <<>> THEN EmptyBag ELSE SeqToBag(Tail(s)) (+) SetToBag({Head(s)})

RECURSIVE Flatten(_)
Flatten(ss) == IF ss = <<>> THEN <<>> ELSE Head(ss) \o Flatten(Tail(ss))

\* ------------------------------------------------------ str.strip, truth
Whitespace == {" ", "\n", "\r", "\t"}

RECURSIVE lstrip(_)
lstrip(s) == IF s # <<>> /\ Head(s) \in Whitespace THEN lstrip(Tail(s)) ELSE s

RECURSIVE rstrip(_)
rstrip(s) ==
    IF s # <<>> /\ s[Len(s)] \in Whitespace THEN rstrip(SubSeq(s, 1, Len(s) - 1)) ELSE s

strip(s) == rstrip(lstrip(s))

\* `if x:` on a str
Truthy(s) == Len(s) > 0

\* ------------------------------------------------------------- list.sort
\* list.sort(key=..., reverse=...) is stable in both directions: the result
\* is given as the sequence of the positions the elements had before
Before(keys, reverse, i, j) ==
    \/ (IF reverse THEN keys[i] > keys[j] ELSE keys[i] < keys[j])
    \/ (keys[i] = keys[j] /\ i < j)

list_sort(keys, reverse) ==
    LET n == Len(keys)
        pos(i) == 1 + Cardinality({j \in 1..n : Before(keys, reverse, j, i)})
    IN  [p \in 1..n |-> CHOOSE i \in 1..n : pos(i) = p]

Permute(s, order) == [p \in 1..Len(s) |-> s[order[p]]]

\* the elements of s at the positions in idx, in the order of s
RECURSIVE Pick(_, _, _)
Pick(s, idx, i) ==
    IF i > Len(s) THEN <<>>
    ELSE (IF i \in idx THEN <<s[i]>> ELSE <<>>) \o Pick(s, idx, i + 1)

\* ------------------------------------------------------ _parse_timestamp
\* the platform format left out
matches_format_iso_only(created_at) == created_at.fmt \in {"isofrac", "iso"}

\* the strings one of the three strptime calls accepts
matches_format(created_at) == created_at.fmt \in {"twitter", "isofrac", "iso"}

\* the strings that take one of the two `return datetime.now()` exits
FallsBack(created_at) == created_at.fmt = "empty" \/ ~matches_format(created_at)

\* the strings that reach logger.warning
Warns(created_at) == created_at.fmt # "empty" /\ ~matches_format(created_at)

\* now: what datetime.now() returns if this call reaches it; a string in the
\* platform format gives its wall-clock fields (.replace(tzinfo=None))
parse_timestamp(created_at, now) ==
    IF FallsBack(created_at) THEN now ELSE created_at.wall

\* the values a run of calls of datetime.now() can return, one per position
\* of 1..n that is in `reading`, after the clock has shown `from`
NowReads(n, reading, from) ==
    {f \in [1..n -> NowSet \cup {from}] :
        /\ \A i \in 1..n : i \notin reading => f[i] = from
        /\ \A i \in reading : f[i] >= from /\ f[i] \in NowSet
        /\ \A i, j \in reading : i < j => f[i] <= f[j]}

LastRead(f, reading, from) ==
    IF reading = {} THEN from
    ELSE f[CHOOSE i \in reading : \A j \in reading : j <= i]

\* ------------------------------------------------- _read_tweets_from_csv
\* row.get('text', '').strip() on a line without a text field: None.strip()
TextIsNone(row) == row.nfields < 3

\* the lines the loop reaches: all of them, or those up to the first one
\* that raises
Reached(rows) ==
    {i \in 1..Len(rows) : \A j \in 1..i - 1 : ~TextIsNone(rows[j])}

ReadRaises(rows) == \E i \in 1..Len(rows) : TextIsNone(rows[i])

\* the calls of _parse_timestamp the loop makes that read the clock
ReadFallbacks(rows) ==
    {i \in Reached(rows) : ~TextIsNone(rows[i]) /\ FallsBack(rows[i].created_at)}

RowTweet(row, now) ==
    [id |-> row.tweet_id,
     created_at |-> row.created_at,
     text |-> strip(row.text),
     timestamp |-> parse_timestamp(row.created_at, now)]

Keeps(tweet) == tweet.id # "" /\ Truthy(tweet.text)

RECURSIVE RowTweets(_, _, _)
RowTweets(rows, nows, i) ==
    IF i > Len(rows) THEN <<>>
    ELSE LET tweet == RowTweet(rows[i], nows[i])
         IN  (IF Keeps(tweet) THEN <<tweet>> ELSE <<>>) \o RowTweets(rows, nows, i + 1)

Timestamps(ts) == [i \in 1..Len(ts) |-> ts[i].timestamp]

\* the list left in the order of the file
read_tweets_unsorted(rows, nows) == RowTweets(rows, nows, 1)

\* the list _read_tweets_from_csv returns when no line raises
read_tweets_from_csv(rows, nows) ==
    LET loaded == RowTweets(rows, nows, 1)
    IN  Permute(loaded, list_sort(Timestamps(loaded), TRUE))

\* ------------------------------------------------------- _detect_threads
\* self.time_window_minutes * 60
window_seconds == time_window_minutes * 60

\* time_diff <= (self.time_window_minutes * 60)
within_window(time_diff) == time_diff <= window_seconds

\* the positions the inner loop of anchor i appends to thread_tweets
Joined(ts, i, thread_tweet_ids) ==
    {j \in i + 1..Len(ts) :
        /\ ts[j].id \notin thread_tweet_ids
        /\ within_window(Abs(ts[i].timestamp - ts[j].timestamp))}

\* the thread left as the scan built it: anchor first, newest to oldest
sort_thread_missing(thread_tweets) == thread_tweets

\* the thread sorted newest first
sort_thread_reversed(thread_tweets) ==
    Permute(thread_tweets, list_sort(Timestamps(thread_tweets), TRUE))

\* thread_tweets.sort(key=lambda x: x['timestamp'])
sort_thread(thread_tweets) ==
    Permute(thread_tweets, list_sort(Timestamps(thread_tweets), FALSE))

\* the outer loop from position i on, with the threads and the claimed ids
\* found so far
RECURSIVE Scan(_, _, _, _)
Scan(ts, i, found, thread_tweet_ids) ==
    IF i > Len(ts) THEN [threads |-> found, thread_tweet_ids |-> thread_tweet_ids]
    ELSE IF ts[i].id \in thread_tweet_ids THEN Scan(ts, i + 1, found, thread_tweet_ids)
    ELSE LET joined == Joined(ts, i, thread_tweet_ids)
             thread_tweets == <<ts[i]>> \o Pick(ts, joined, 1)
             candidate_ids == {ts[j].id : j \in joined \cup {i}}
         IN  IF Len(thread_tweets) > 1
             THEN Scan(ts, i + 1, Append(found, sort_thread(thread_tweets)),
                       thread_tweet_ids \cup candidate_ids)
             ELSE Scan(ts, i + 1, found, thread_tweet_ids)

\* (threads, standalone_tweets)
detect_threads(ts) ==
    LET scanned == Scan(ts, 1, <<>>, {})
    IN  [threads |-> scanned.threads,
         standalone_tweets |->
             SelectSeq(ts, LAMBDA tweet : tweet.id \notin scanned.thread_tweet_ids)]

\* --------------------------------------------- _create_consolidated_posts
Newline == <<"\n", "\n">>

\* the loop that builds combined_text
RECURSIVE combined_text(_)
combined_text(thread) ==
    IF Len(thread) = 1 THEN thread[1].text
    ELSE combined_text(SubSeq(thread, 1, Len(thread) - 1)) \o Newline \o thread[Len(thread)].text

thread_post(thread) ==
    [tweet_id |-> thread[1].id,
     timestamp |-> thread[1].created_at,
     text |-> combined_text(thread),
     is_thread |-> TRUE,
     thread_count |-> Len(thread)]

standalone_post(tweet) ==
    [tweet_id |-> tweet.id,
     timestamp |-> tweet.created_at,
     text |-> tweet.text,
     is_thread |-> FALSE,
     thread_count |-> 1]

\* consolidated_posts as it is before the final sort
unsorted_posts(ths, alone) ==
    [k \in 1..Len(ths) |-> thread_post(ths[k])] \o
    [k \in 1..Len(alone) |-> standalone_post(alone[k])]

\* the calls of _parse_timestamp the final sort makes that read the clock
SortFallbacks(posts) == {k \in 1..Len(posts) : FallsBack(posts[k].timestamp)}

\* the keys the final sort computes, one per post, in list order
post_keys(posts, nows) ==
    [k \in 1..Len(posts) |-> parse_timestamp(posts[k].timestamp, nows[k])]

\* the list sorted oldest first
sort_posts_ascending(posts, keys) == Permute(posts, list_sort(keys, FALSE))

\* consolidated_posts.sort(key=..., reverse=True)
sort_posts(posts, keys) == Permute(posts, list_sort(keys, TRUE))

\* ------------------------------------------------- _save_consolidated_csv
\* post['text'].replace('\n', ' ').replace('\r', ' ')
clean_text(text) ==
    [i \in 1..Len(text) |-> IF text[i] \in {"\n", "\r"} THEN " " ELSE text[i]]

saved_rows(posts) ==
    [k \in 1..Len(posts) |->
        [tweet_id |-> posts[k].tweet_id,
         timestamp |-> posts[k].timestamp,
         text |-> clean_text(posts[k].text)]]

\* os.path.exists(filepath) is False
NoFile == [exists |-> FALSE, rows |-> <<>>]

\* JSON null
None == "None"

\* data_pull_status as the module creates it
StatusAtImport ==
    [in_progress |-> FALSE,
     progress |-> 0,
     status_text |-> "",
     current_date |-> "",
     error |-> None,
     result |-> None]

\* no status request has been answered yet
NoReply == <<>>


\* ------------------------------------------------------------ the driver
Printed(prefix, payload) == [prefix |-> prefix, payload |-> payload]

NoRun == [ran |-> FALSE, pc |-> "idle", threads |-> <<>>, standalone_tweets |-> <<>>,
          consolidated_posts |-> <<>>]

Fresh ==
    /\ tweets = <<>>
    /\ threads = <<>>
    /\ standalone_tweets = <<>>
    /\ consolidated_posts = <<>>
    /\ sort_keys = <<>>
    /\ stdout = <<>>
    /\ warnings = 0
    /\ error = ""

InitWith(files) ==
    /\ csv_rows \in files
    /\ clock = ClockStart
    /\ pc = "idle"
    /\ runs = 0
    /\ Fresh
    /\ outfile = <<>>
    /\ written = FALSE
    /\ prev = NoRun
    /\ td_pc = "idle"
    /\ td_tweets = <<>>
    /\ td_thread_groups = <<>>
    /\ td_detected_threads = <<>>
    /\ td_standalone_tweets = <<>>
    /\ td_warnings = 0
    /\ dbg_pc = "idle"
    /\ dbg_tweets = <<>>
    /\ dbg_higher_tweet = <<>>
    /\ dbg_threads = <<>>
    /\ dbg_standalone_tweets = <<>>
    /\ xp_pc = "idle"
    /\ xp_runs = 0
    /\ xp_end_date = FALSE
    /\ xp_page = 1
    /\ xp_all_tweets = <<>>
    /\ xp_responses = <<>>
    /\ xp_stdout = ""
    /\ raw_file = NoFile
    /\ data_pull_status = StatusAtImport
    /\ checked = 0
    /\ workers = <<>>
    /\ cancelled = {}
    /\ reply = NoReply

Init == InitWith(Inputs)

InitRerun == InitWith(RerunInputs)

\* main(): the two STATUS lines, ThreadConsolidator(time_window_minutes=2)
\* and the call of process_csv
main_begin ==
    /\ pc = "idle"
    /\ pc' = "process_csv"
    /\ runs' = runs + 1
    /\ stdout' = <<Printed("STATUS", "Starting thread consolidation..."),
                   Printed("STATUS", "Processing file")>>
    /\ UNCHANGED <<csv_rows, clock, tweets, threads, standalone_tweets,
                   consolidated_posts, sort_keys, outfile, written, warnings, error, prev>>
    /\ UNCHANGED <<tdvars, sidevars>>

\* process_csv: tweets = self._read_tweets_from_csv(...), the test for no
\* tweets and the first STATUS line
process_csv_read ==
    /\ pc = "process_csv"
    /\ \E nows \in NowReads(Len(csv_rows), ReadFallbacks(csv_rows), clock) :
        /\ clock' = LastRead(nows, ReadFallbacks(csv_rows), clock)
        /\ warnings' = warnings + Cardinality({i \in Reached(csv_rows) :
                            ~TextIsNone(csv_rows[i]) /\ Warns(csv_rows[i].created_at)})
        /\ IF ReadRaises(csv_rows)
           THEN /\ error' = "'NoneType' object has no attribute 'strip'"
                /\ pc' = "raised"
                /\ UNCHANGED <<tweets, stdout>>
           ELSE LET loaded == read_tweets_from_csv(csv_rows, nows)
                IN  IF loaded = <<>>
                    THEN /\ error' = "No tweets found in CSV file"
                         /\ pc' = "raised"
                         /\ UNCHANGED <<tweets, stdout>>
                    ELSE /\ tweets' = loaded
                         /\ stdout' = Append(stdout, Printed("STATUS", "Loaded tweets"))
                         /\ pc' = "loaded"
                         /\ UNCHANGED error
    /\ UNCHANGED <<csv_rows, runs, threads, standalone_tweets, consolidated_posts,
                   sort_keys, outfile, written, prev>>
    /\ UNCHANGED <<tdvars, sidevars>>

\* process_csv: threads, standalone_tweets = self._detect_threads(tweets)
process_csv_detect ==
    /\ pc = "loaded"
    /\ LET detected == detect_threads(tweets)
       IN  /\ threads' = detected.threads
           /\ standalone_tweets' = detected.standalone_tweets
    /\ stdout' = Append(stdout, Printed("STATUS", "Detected threads and standalone tweets"))
    /\ pc' = "detected"
    /\ UNCHANGED <<csv_rows, clock, runs, tweets, consolidated_posts, sort_keys,
                   outfile, written, warnings, error, prev>>
    /\ UNCHANGED <<tdvars, sidevars>>

\* process_csv: consolidated_posts = self._create_consolidated_posts(...)
process_csv_create ==
    /\ pc = "detected"
    /\ LET posts == unsorted_posts(threads, standalone_tweets)
           reading == SortFallbacks(posts)
       IN  \E nows \in NowReads(Len(posts), reading, clock) :
             LET keys == post_keys(posts, nows)
             IN  /\ consolidated_posts' = sort_posts(posts, keys)
                 /\ sort_keys' = sort_posts(keys, keys)
                 /\ clock' = LastRead(nows, reading, clock)
                 /\ warnings' = warnings +
                        Cardinality({k \in 1..Len(posts) : Warns(posts[k].timestamp)})
    /\ stdout' = Append(stdout, Printed("STATUS", "Consolidated to total posts"))
    /\ pc' = "consolidated"
    /\ UNCHANGED <<csv_rows, runs, tweets, threads, standalone_tweets, outfile,
                   written, error, prev>>
    /\ UNCHANGED <<tdvars, sidevars>>

\* process_csv: the output file name and self._save_consolidated_csv(...)
process_csv_save ==
    /\ pc = "consolidated"
    /\ outfile' = saved_rows(consolidated_posts)
    /\ written' = TRUE
    /\ stdout' = Append(stdout, Printed("STATUS", "Saved consolidated posts"))
    /\ pc' = "saved"
    /\ UNCHANGED <<csv_rows, clock, runs, tweets, threads, standalone_tweets,
                   consolidated_posts, sort_keys, warnings, error, prev>>
    /\ UNCHANGED <<tdvars, sidevars>>

\* main(): print(f"SUCCESS:{output_filepath}")
main_success ==
    /\ pc = "saved"
    /\ stdout' = Append(stdout, Printed("SUCCESS", "processed file"))
    /\ pc' = "exit0"
    /\ UNCHANGED <<csv_rows, clock, runs, tweets, threads, standalone_tweets,
                   consolidated_posts, sort_keys, outfile, written, warnings, error, prev>>
    /\ UNCHANGED <<tdvars, sidevars>>

\* main(): except Exception as e: ... print(f"ERROR:{str(e)}"); sys.exit(1)
main_error ==
    /\ pc = "raised"
    /\ stdout' = Append(stdout, Printed("ERROR", error))
    /\ pc' = "exit1"
    /\ UNCHANGED <<csv_rows, clock, runs, tweets, threads, standalone_tweets,
                   consolidated_posts, sort_keys, outfile, written, warnings, error, prev>>
    /\ UNCHANGED <<tdvars, sidevars>>

\* the script is started again on the same file: a new process, whose
\* objects are new; the clock has gone on and the files are as they were left
main_again ==
    /\ pc \in {"exit0", "exit1"}
    /\ runs < MaxRuns
    /\ prev' = [ran |-> TRUE, pc |-> pc, threads |-> threads,
                standalone_tweets |-> standalone_tweets,
                consolidated_posts |-> consolidated_posts]
    /\ pc' = "idle"
    /\ tweets' = <<>>
    /\ threads' = <<>>
    /\ standalone_tweets' = <<>>
    /\ consolidated_posts' = <<>>
    /\ sort_keys' = <<>>
    /\ stdout' = <<>>
    /\ warnings' = 0
    /\ error' = ""
    /\ UNCHANGED <<csv_rows, clock, runs, outfile, written>>
    /\ UNCHANGED <<tdvars, sidevars>>

Next ==
    \/ main_begin
    \/ process_csv_read
    \/ process_csv_detect
    \/ process_csv_create
    \/ process_csv_save
    \/ main_success
    \/ main_error

Spec == Init /\ [][Next]_vars

NextRerun == Next \/ main_again

SpecRerun == InitRerun /\ [][NextRerun]_vars

\* the sort that ends _create_consolidated_posts, run once more on the list
\* it returned: the keys are parsed again from the records' timestamp texts
sort_again ==
    /\ pc = "consolidated"
    /\ LET reading == SortFallbacks(consolidated_posts)
       IN  \E nows \in NowReads(Len(consolidated_posts), reading, clock) :
             LET keys == post_keys(consolidated_posts, nows)
             IN  /\ consolidated_posts' = sort_posts(consolidated_posts, keys)
                 /\ sort_keys' = sort_posts(keys, keys)
                 /\ clock' = LastRead(nows, reading, clock)
                 /\ warnings' = warnings + Cardinality({k \in 1..Len(consolidated_posts) :
                                              Warns(consolidated_posts[k].timestamp)})
    /\ prev' = [ran |-> TRUE, pc |-> pc, threads |-> threads,
                standalone_tweets |-> standalone_tweets,
                consolidated_posts |-> consolidated_posts]
    /\ pc' = "sorted_again"
    /\ UNCHANGED <<csv_rows, runs, tweets, threads, standalone_tweets, outfile,
                   written, stdout, error>>
    /\ UNCHANGED <<tdvars, sidevars>>

NextResort == Next \/ sort_again

SpecResort == Init /\ [][NextResort]_vars

\* the files that are given again with their lines in another order
PermuteLines ==
    { Line(3, "1", Iso(60), <<"A">>),
      Line(3, "2", Twitter(0, 0), <<"B">>),
      Line(3, "2", Twitter(60, 0), <<"B">>),
      Line(3, "2", Twitter(120, 0), <<"B">>),
      Line(3, "3", Twitter(60, 1), <<"C">>),
      Line(3, "3", Twitter(181, 1), <<"C">>),
      Line(3, "4", IsoFrac(240), <<"A">>),
      Line(3, "1", GarbageStamp, <<"A">>) }

PermuteInputs == SeqsUpTo(PermuteLines, MaxPermuteRows)

InitPermute == InitWith(PermuteInputs)

\* the orders the lines of a file can be put in
RowOrders(rows) ==
    {Permute(rows, order) : order \in
        {f \in [1..Len(rows) -> 1..Len(rows)] :
            \A i, j \in 1..Len(rows) : i # j => f[i] # f[j]}}

\* the script is started again on a file with the same lines in another order
main_permuted ==
    /\ pc \in {"exit0", "exit1"}
    /\ runs < MaxRuns
    /\ csv_rows' \in RowOrders(csv_rows)
    /\ prev' = [ran |-> TRUE, pc |-> pc, threads |-> threads,
                standalone_tweets |-> standalone_tweets,
                consolidated_posts |-> consolidated_posts]
    /\ pc' = "idle"
    /\ tweets' = <<>>
    /\ threads' = <<>>
    /\ standalone_tweets' = <<>>
    /\ consolidated_posts' = <<>>
    /\ sort_keys' = <<>>
    /\ stdout' = <<>>
    /\ warnings' = 0
    /\ error' = ""
    /\ UNCHANGED <<clock, runs, outfile, written>>
    /\ UNCHANGED <<tdvars, sidevars>>

NextPermute == Next \/ main_permuted

SpecPermute == InitPermute /\ [][NextPermute]_vars

\* ============================================ backend/thread_detector.py
\* main(): TwitterThreadDetector(time_window_minutes=2)
td_time_window_minutes == 2

\* self.time_window = timedelta(minutes=time_window_minutes), in seconds
time_window == td_time_window_minutes * 60

\* the files given to the detector.  A text is a sequence of words and
\* whitespace characters, two words always with whitespace between them
DetectorLines ==
    { Line(3, "1", Twitter(0, 0), <<"gm">>),
      Line(3, "1", Twitter(0, 0), <<"launch", " ", "update">>),
      Line(3, "2", Twitter(60, 0), <<"gm">>),
      Line(3, "2", Twitter(61, 0), <<"launch">>),
      Line(3, "2", Twitter(120, 0), <<"#mantle">>),
      Line(3, "3", Twitter(121, 0), <<"gm">>),
      Line(3, "3", Twitter(240, 0), <<"#Mantle">>),
      Line(3, "3", Twitter(240, 0), <<"Bybit">>),
      Line(3, "1", Twitter(121, 0), <<"@bybit_official">>),
      Line(3, "3", Twitter(60, 1), <<"gm">>),
      Line(3, "3", Iso(60), <<"gm">>),
      Line(2, "1", Twitter(61, 0), <<>>) }

DetectorInputs == SeqsUpTo(DetectorLines, MaxDetectorRows)

InitDetector == InitWith(DetectorInputs)

\* the variables of the consolidation engine
tcvars == <<csv_rows, clock, pc, runs, tweets, threads, standalone_tweets,
            consolidated_posts, sort_keys, outfile, written, stdout, warnings,
            error, prev>>

RECURSIVE Sum(_)
Sum(s) == IF s = <<>> THEN 0 ELSE Head(s) + Sum(Tail(s))

\* ---------------------------------------------------------- _load_tweets
\* datetime.strptime(row['created_at'], "%a %b %d %H:%M:%S %z %Y") returns:
\* the field is there and in the platform format
td_parses(row) == row.nfields >= 2 /\ row.created_at.fmt = "twitter"

\* the instant of an aware datetime: the wall-clock fields less the offset
\* (in hours)
td_instant(created_at) == created_at.wall - created_at.off * 3600

\* the dict appended for a line; text is None when the line has no text field
td_tweet(row) ==
    [id |-> row.tweet_id,
     timestamp |-> td_instant(row.created_at),
     text |-> row.text,
     text_is_none |-> TextIsNone(row)]

\* the list sorted by timestamp, oldest first
load_tweets(rows) ==
    LET parsed == SelectSeq(rows, td_parses)
        loaded == [i \in 1..Len(parsed) |-> td_tweet(parsed[i])]
    IN  Permute(loaded, list_sort(Timestamps(loaded), FALSE))

\* ---------------------------------------------- _group_by_time_proximity
\* the loop from position i on, with the groups closed so far and the
\* current group
RECURSIVE GroupFrom(_, _, _, _)
GroupFrom(ts, i, groups, current_group) ==
    IF i > Len(ts) THEN Append(groups, current_group)
    ELSE IF ts[i].timestamp - current_group[Len(current_group)].timestamp <= time_window
         THEN GroupFrom(ts, i + 1, groups, Append(current_group, ts[i]))
         ELSE GroupFrom(ts, i + 1, Append(groups, current_group), <<ts[i]>>)

group_by_time_proximity(ts) ==
    IF ts = <<>> THEN <<>> ELSE GroupFrom(ts, 2, <<>>, <<ts[1]>>)

\* ------------------------------------------------- _has_topic_coherence
\* str.lower on the words of the files
Lower(word) ==
    CASE word = "#Mantle" -> "#mantle"
      [] word = "Bybit" -> "bybit"
      [] OTHER -> word

lower(text) == [i \in 1..Len(text) |-> Lower(text[i])]

\* str.split
split(text) == SelectSeq(text, LAMBDA word : word \notin Whitespace)

\* word.startswith('#'), word.startswith('@')
is_hashtag(word) == word \in {"#mantle", "#Mantle"}

is_mention(word) == word \in {"@bybit_official"}

business_terms ==
    {"partnership", "collaboration", "launch", "update", "announcement", "ecosystem",
     "advisor", "advisors"}

tech_terms == {"blockchain", "defi", "crypto", "token", "network", "protocol"}

event_terms ==
    {"live", "stream", "broadcast", "calendar", "date", "featuring", "@bybit_official",
     "helen liu", "emily bao"}

\* the terms, and the brand name, that are substrings of a word of the files
SubstringsOf(word) ==
    CASE word = "launch" -> {"launch"}
      [] word = "update" -> {"update", "date"}
      [] word = "bybit" -> {"bybit"}
      [] word = "@bybit_official" -> {"@bybit_official", "bybit"}
      [] OTHER -> {}

\* term in text
term_in(term, text) == \E i \in 1..Len(text) : term \in SubstringsOf(text[i])

\* sum(1 for text in texts for term in term_group if term in text)
matches(term_group, texts) ==
    Sum([m \in 1..Len(texts) |->
            Cardinality({term \in term_group : term_in(term, texts[m])})])

\* sum(1 for text in texts if 'bybit' in text)
bybit_refs(texts) == Cardinality({m \in 1..Len(texts) : term_in("bybit", texts[m])})

group_texts(group) == [m \in 1..Len(group) |-> lower(group[m].text)]

\* hashtags + mentions
key_terms(texts) ==
    LET all_words == Flatten([m \in 1..Len(texts) |-> split(texts[m])])
    IN  SelectSeq(all_words, is_hashtag) \o SelectSeq(all_words, is_mention)

\* len(set(key_terms)) < len(key_terms) * 0.8
some_repetition(terms) == Cardinality(Range(terms)) * 5 < Len(terms) * 4

has_topic_coherence(group) ==
    LET texts == group_texts(group)
    IN  \/ some_repetition(key_terms(texts))
        \/ \E term_group \in {business_terms, tech_terms, event_terms} :
              matches(term_group, texts) >= 2
        \/ bybit_refs(texts) >= 2

\* ----------------------------------------------------------- _is_thread
time_span(group) == group[Len(group)].timestamp - group[1].timestamp

\* every group of two or more taken for a thread
is_thread_any_group(group) == Len(group) >= 2

\* the rapid-posting limit set to two minutes
is_thread_two_minutes(group) == Len(group) >= 2 /\ time_span(group) <= 120

is_thread(group) ==
    /\ Len(group) >= 2
    /\ \/ time_span(group) <= 60
       \/ time_span(group) <= 120 /\ has_topic_coherence(group)

\* ------------------------------------------------------ _combine_thread
\* re.match(r'^\d+[/.)]', text): no word of the files starts with a digit
starts_numbered(text) == FALSE

thread_part(i, n, text) ==
    IF starts_numbered(text) THEN text
    ELSE <<ToString(i) \o "/" \o ToString(n), " ">> \o text

RECURSIVE join_parts(_)
join_parts(parts) ==
    IF Len(parts) = 1 THEN parts[1]
    ELSE parts[1] \o <<"\n", "\n">> \o join_parts(Tail(parts))

combine_thread(group) ==
    LET sorted_tweets == Permute(group, list_sort(Timestamps(group), FALSE))
        n == Len(sorted_tweets)
    IN  [thread_id |-> "thread_" \o sorted_tweets[1].id,
         start_time |-> sorted_tweets[1].timestamp,
         end_time |-> sorted_tweets[n].timestamp,
         tweet_count |-> Len(group),
         combined_text |->
             join_parts([i \in 1..n |-> thread_part(i, n, sorted_tweets[i].text)]),
         original_tweets |->
             [i \in 1..n |-> [id |-> sorted_tweets[i].id,
                              text |-> sorted_tweets[i].text,
                              timestamp |-> sorted_tweets[i].timestamp]]]

\* ------------------------------------------------------- detect_threads
\* a member's text is None and the group gets as far as t['text'].lower()
\* in _has_topic_coherence or re.match in _combine_thread
group_raises(group) ==
    /\ Len(group) >= 2
    /\ time_span(group) <= 120
    /\ \E m \in 1..Len(group) : group[m].text_is_none

\* tweets = self._load_tweets(csv_file_path)
td_load ==
    /\ td_pc = "idle"
    /\ td_tweets' = load_tweets(csv_rows)
    /\ td_warnings' = td_warnings +
           Cardinality({i \in 1..Len(csv_rows) : ~td_parses(csv_rows[i])})
    /\ td_pc' = "loaded"
    /\ UNCHANGED <<td_thread_groups, td_detected_threads, td_standalone_tweets>>
    /\ UNCHANGED <<tcvars, sidevars>>

\* thread_groups = self._group_by_time_proximity(tweets)
td_group ==
    /\ td_pc = "loaded"
    /\ td_thread_groups' = group_by_time_proximity(td_tweets)
    /\ td_pc' = "grouped"
    /\ UNCHANGED <<td_tweets, td_detected_threads, td_standalone_tweets, td_warnings>>
    /\ UNCHANGED <<tcvars, sidevars>>

\* the loop over thread_groups and the return
td_classify ==
    /\ td_pc = "grouped"
    /\ IF \E g \in 1..Len(td_thread_groups) : group_raises(td_thread_groups[g])
       THEN /\ td_pc' = "raised"
            /\ UNCHANGED <<td_detected_threads, td_standalone_tweets>>
       ELSE LET accepted == SelectSeq(td_thread_groups, is_thread)
                rejected == SelectSeq(td_thread_groups, LAMBDA group : ~is_thread(group))
            IN  /\ td_detected_threads' =
                       [k \in 1..Len(accepted) |-> combine_thread(accepted[k])]
                /\ td_standalone_tweets' = Flatten(rejected)
                /\ td_pc' = "returned"
    /\ UNCHANGED <<td_tweets, td_thread_groups, td_warnings>>
    /\ UNCHANGED <<tcvars, sidevars>>

\* the detector and the loader and scan of the engine on the same file
NextDetector ==
    \/ td_load
    \/ td_group
    \/ td_classify
    \/ main_begin
    \/ process_csv_read
    \/ process_csv_detect

SpecDetector == InitDetector /\ [][NextDetector]_vars

\* ============================================================ x_data_puller
\* x_data_puller.py: main() pulls the pages of an account from the API and
\* appends the tweets in the date range to the raw CSV of the token and the
\* start date, page by page.

\* the value of a tweet's "id" in the JSON the API returned: a string or a
\* number, with the text str() gives it
Str(t) == [type |-> "str", text |-> t]
Num(t) == [type |-> "number", text |-> t]

\* csv.DictWriter writes str(value)
str(value) == value.text

\* a field csv.DictReader read is a str
from_csv(text) == Str(text)

\* `when` places createdAt against the date range: before the start date, in
\* the range, or after the end date
ApiTweet(id, userName, retweet, when) ==
    [id |-> id, userName |-> userName, retweet |-> retweet, when |-> when]

Target(id) == ApiTweet(id, "Mantle_Official", FALSE, "range")

\* the tweet lists of the pages the API returns
ApiPages ==
    { <<>>,
      <<Target(Str("1"))>>,
      <<Target(Str("1")), ApiTweet(Str("2"), "0xMantle", FALSE, "range")>>,
      <<Target(Str("2")), Target(Str("3"))>>,
      <<Target(Num("7")), Target(Str("2"))>>,
      <<Target(Str("4")), ApiTweet(Str("5"), "Mantle_Official", FALSE, "before"),
        Target(Str("6"))>>,
      <<ApiTweet(Str("8"), "Mantle_Official", FALSE, "after"),
        ApiTweet(Str("9"), "elonmusk", FALSE, "range"),
        ApiTweet(Str("10"), "Mantle_Official", TRUE, "range"),
        Target(Str("")),
        Target(Str("3"))>> }

\* a response: the tweets with has_next_page and whether next_cursor is a
\* non-empty string
ApiResponses ==
    {[tweets |-> page, has_next_page |-> more, next_cursor |-> cur] :
        page \in ApiPages, more \in BOOLEAN, cur \in BOOLEAN}

\* author_username in ['Mantle_Official', '0xMantle']
from_target(tweet) == tweet.userName \in {"Mantle_Official", "0xMantle"}

\* the date test of the filter loop: with an end date the range is closed
\* at both ends, without one every tweet from the start date on is in it
in_range(tweet, end_date) ==
    IF end_date THEN tweet.when = "range" ELSE tweet.when \in {"range", "after"}

\* the filter loop over the tweets of a page from position i on:
\* tweets_in_range, and whether the loop returned at a tweet before the
\* start date
RECURSIVE filter_page(_, _, _, _)
filter_page(page, end_date, i, tweets_in_range) ==
    IF i > Len(page) THEN [tweets_in_range |-> tweets_in_range, reached_start |-> FALSE]
    ELSE IF ~from_target(page[i]) \/ page[i].retweet
         THEN filter_page(page, end_date, i + 1, tweets_in_range)
    ELSE IF in_range(page[i], end_date)
         THEN filter_page(page, end_date, i + 1, Append(tweets_in_range, page[i]))
    ELSE IF page[i].when = "before"
         THEN [tweets_in_range |-> tweets_in_range, reached_start |-> TRUE]
    ELSE filter_page(page, end_date, i + 1, tweets_in_range)

\* existing_ids as read from the file
ids_of_file(file) == {from_csv(file.rows[i].tweet_id) : i \in 1..Len(file.rows)}

\* if tweet_id and tweet_id not in existing_ids
RECURSIVE new_tweets_of(_, _, _)
new_tweets_of(page_tweets, i, existing_ids) ==
    IF i > Len(page_tweets) THEN <<>>
    ELSE LET tweet_id == page_tweets[i].id
         IN  IF str(tweet_id) # "" /\ tweet_id \notin existing_ids
             THEN <<page_tweets[i]>> \o
                  new_tweets_of(page_tweets, i + 1, existing_ids \cup {tweet_id})
             ELSE new_tweets_of(page_tweets, i + 1, existing_ids)

\* the row writer.writerow appends for a tweet
raw_row(tweet) == [tweet_id |-> str(tweet.id)]

\* the file after save_page_to_csv(tweets, ...)
save_page_to_csv(file, page_tweets) ==
    LET new_tweets == new_tweets_of(page_tweets, 1, ids_of_file(file))
    IN  IF page_tweets = <<>> \/ new_tweets = <<>> THEN file
        ELSE [exists |-> TRUE,
              rows |-> file.rows \o [i \in 1..Len(new_tweets) |-> raw_row(new_tweets[i])]]

\* main() is started, the first time or again on the file the earlier
\* invocations left
xp_main ==
    /\ xp_pc \in {"idle", "exit0", "exit1"}
    /\ xp_runs < MaxPullerRuns
    /\ xp_runs' = xp_runs + 1
    /\ xp_end_date' \in BOOLEAN
    /\ xp_pc' = "fetching"
    /\ xp_page' = 1
    /\ xp_all_tweets' = <<>>
    /\ xp_responses' = <<>>
    /\ xp_stdout' = ""
    /\ UNCHANGED raw_file
    /\ UNCHANGED <<tcvars, tdvars, dbgvars, apivars>>

\* what main() prints for the list get_user_tweets_by_username returned
printed_for(returned) ==
    IF returned = <<>> THEN "ERROR:No tweets found in date range" ELSE "SUCCESS"

\* one pass of the `while True` loop: the request, the pagination test, the
\* filter loop and save_page_to_csv; when the loop ends, the return to
\* main() and its SUCCESS or ERROR line
xp_fetch_page ==
    /\ xp_pc = "fetching"
    /\ xp_page <= MaxPages
    /\ \E data \in ApiResponses :
        /\ xp_responses' = Append(xp_responses, data)
        /\ IF ~data.has_next_page \/ data.tweets = <<>>
           THEN /\ xp_stdout' = printed_for(xp_all_tweets)
                /\ xp_pc' = IF xp_all_tweets = <<>> THEN "exit1" ELSE "exit0"
                /\ UNCHANGED <<xp_page, xp_all_tweets, raw_file>>
           ELSE LET filtered == filter_page(data.tweets, xp_end_date, 1, <<>>)
                    extended == xp_all_tweets \o filtered.tweets_in_range
                IN  /\ xp_all_tweets' = extended
                    /\ IF filtered.reached_start
                       THEN /\ xp_stdout' = printed_for(extended)
                            /\ xp_pc' = IF extended = <<>> THEN "exit1" ELSE "exit0"
                            /\ UNCHANGED <<xp_page, raw_file>>
                       ELSE /\ raw_file' = save_page_to_csv(raw_file, filtered.tweets_in_range)
                            /\ xp_page' = xp_page + 1
                            /\ UNCHANGED <<xp_pc, xp_stdout>>
    /\ UNCHANGED <<xp_runs, xp_end_date>>
    /\ UNCHANGED <<tcvars, tdvars, dbgvars, apivars>>

\* requests.get or raise_for_status raises: the exception reaches main()
xp_request_fails ==
    /\ xp_pc = "fetching"
    /\ xp_page <= MaxPages
    /\ xp_pc' = "exit1"
    /\ xp_stdout' = "ERROR:request failed"
    /\ UNCHANGED <<xp_runs, xp_end_date, xp_page, xp_all_tweets, xp_responses, raw_file>>
    /\ UNCHANGED <<tcvars, tdvars, dbgvars, apivars>>

NextPuller == xp_main \/ xp_fetch_page \/ xp_request_fails

InitPuller == InitWith({<<>>})

SpecPuller == InitPuller /\ [][NextPuller]_vars

\* =============================================================== api_server
\* api_server.py: the handlers of /api/start-data-pull, /api/data-pull-status
\* and /api/cancel-data-pull run in the threads of the server, and
\* execute_data_pull runs in a thread of its own with x_data_puller.py as
\* its subprocess. The counters posts_downloaded and api_calls of
\* data_pull_status are left out.

\* what the subprocess writes, in order: a line on stdout, named by its
\* prefix, or "log", a record the logger writes to stderr
OutputLines == {"PROGRESS", "STATUS", "CURRENT_DATE", "SUCCESS", "ERROR"}

\* records of the logger, one after the other
Logs(n) == [i \in 1..n |-> "log"]

\* the runs of x_data_puller.py: a pull that succeeds, one that prints an
\* ERROR line, one that dies with a traceback, and a pull of many pages,
\* whose log records are more than the stderr pipe holds
Scripts ==
    { <<"CURRENT_DATE", "PROGRESS", "log", "STATUS", "SUCCESS">>,
      <<"STATUS", "log", "ERROR">>,
      <<"log">>,
      <<"STATUS">> \o Logs(MaxStderrPipe + 1) \o <<"SUCCESS">> }

\* sys.exit(1) after an ERROR line or a traceback, 0 otherwise
return_code(script) == IF script[Len(script)] = "SUCCESS" THEN 0 ELSE 1

\* the thread start_data_pull creates
NewWorker == [pc |-> "init", script |-> <<>>, next |-> 1, stdout |-> <<>>, stderr |-> 0]

Workers == 1..Len(workers)

\* process.poll() is not None
exited(w) == workers[w].pc # "init" /\ workers[w].next > Len(workers[w].script)

\* the values calculate_date_based_progress returns: below 100, or 100
DateBasedProgress == {50, 100}

\* the response of a handler: the status code and the JSON body
Response(code, body) == <<code, body>>

\* start_data_pull up to the reading of the request: the test of
\* in_progress and of the parameters
start_data_pull_check ==
    /\ Len(workers) + checked < MaxWorkers
    /\ \E has_parameters \in BOOLEAN :
        IF data_pull_status.in_progress
        THEN /\ reply' = Response(400, "Data pull already in progress")
             /\ UNCHANGED checked
        ELSE IF ~has_parameters
        THEN /\ reply' = Response(400, "Missing required parameters")
             /\ UNCHANGED checked
        ELSE /\ checked' = checked + 1
             /\ UNCHANGED reply
    /\ UNCHANGED <<data_pull_status, workers, cancelled>>
    /\ UNCHANGED <<tcvars, tdvars, dbgvars, xpvars>>

\* start_data_pull from data_pull_status.update on: the reset of the
\* status and thread.start()
start_data_pull_thread ==
    /\ checked > 0
    /\ checked' = checked - 1
    /\ data_pull_status' = [data_pull_status EXCEPT
            !.in_progress = TRUE,
            !.progress = 0,
            !.status_text = "Starting data pull...",
            !.error = None,
            !.result = None]
    /\ workers' = Append(workers, NewWorker)
    /\ reply' = Response(200, "Data pull started")
    /\ UNCHANGED cancelled
    /\ UNCHANGED <<tcvars, tdvars, dbgvars, xpvars>>

\* get_data_pull_status
get_data_pull_status ==
    /\ reply' = Response(200, data_pull_status)
    /\ UNCHANGED <<data_pull_status, checked, workers, cancelled>>
    /\ UNCHANGED <<tcvars, tdvars, dbgvars, xpvars>>

\* cancel_data_pull: the pull it cancels is the last one started
cancel_data_pull ==
    /\ IF data_pull_status.in_progress
       THEN /\ data_pull_status' = [data_pull_status EXCEPT
                    !.in_progress = FALSE,
                    !.status_text = "Cancelled by user",
                    !.error = "Cancelled"]
            /\ cancelled' = cancelled \cup {Len(workers)}
            /\ reply' = Response(200, "Data pull cancelled")
       ELSE /\ reply' = Response(200, "No data pull in progress")
            /\ UNCHANGED <<data_pull_status, cancelled>>
    /\ UNCHANGED <<checked, workers>>
    /\ UNCHANGED <<tcvars, tdvars, dbgvars, xpvars>>

\* execute_data_pull up to subprocess.Popen
execute_data_pull_popen(w) ==
    /\ workers[w].pc = "init"
    /\ data_pull_status' = [data_pull_status EXCEPT
            !.progress = 10,
            !.status_text = "Initializing data pull..."]
    /\ \E script \in Scripts :
           workers' = [workers EXCEPT ![w].pc = "readline", ![w].script = script]
    /\ UNCHANGED <<checked, cancelled, reply>>
    /\ UNCHANGED <<tcvars, tdvars, dbgvars, xpvars>>

\* the subprocess can write what comes next: a line to stdout, or a log
\* record to stderr while the pipe, which nobody reads, has room
can_write(w) ==
    /\ workers[w].pc # "init"
    /\ workers[w].next <= Len(workers[w].script)
    /\ workers[w].script[workers[w].next] = "log" => workers[w].stderr < MaxStderrPipe

\* one write of the subprocess
subprocess_writes(w) ==
    /\ can_write(w)
    /\ LET output == workers[w].script[workers[w].next]
       IN  workers' = [workers EXCEPT
               ![w].next = @ + 1,
               ![w].stdout = IF output = "log" THEN @ ELSE Append(@, output),
               ![w].stderr = IF output = "log" THEN @ + 1 ELSE @]
    /\ UNCHANGED <<data_pull_status, checked, cancelled, reply>>
    /\ UNCHANGED <<tcvars, tdvars, dbgvars, xpvars>>

\* process.stdout.readline() returns: a line is in the pipe, or the
\* subprocess has exited and the pipe is at its end
can_readline(w) ==
    workers[w].pc = "readline" /\ (workers[w].stdout # <<>> \/ exited(w))

\* data_pull_status after the branch of the loop that handles `line`
after_line(status, line, progress) ==
    CASE line = "PROGRESS" ->
             [status EXCEPT !.progress = progress, !.status_text = "Page (pulling to start date)"]
      [] line = "STATUS" -> [status EXCEPT !.status_text = "status of the puller"]
      [] line = "CURRENT_DATE" -> [status EXCEPT !.current_date = "date of the tweet"]
      [] line = "SUCCESS" ->
             [status EXCEPT !.progress = 100,
                            !.status_text = "Data pull completed successfully!",
                            !.result = "posts, filepath, api_calls"]
      [] line = "ERROR" ->
             [status EXCEPT !.error = "message of the puller",
                            !.status_text = "Error: message of the puller"]

\* one pass of the reading loop of execute_data_pull
execute_data_pull_readline(w) ==
    /\ can_readline(w)
    /\ IF workers[w].stdout = <<>>
       THEN /\ workers' = [workers EXCEPT ![w].pc = "wait"]
            /\ UNCHANGED data_pull_status
       ELSE LET line == Head(workers[w].stdout)
            IN  /\ \E progress \in DateBasedProgress :
                       data_pull_status' = after_line(data_pull_status, line, progress)
                /\ workers' = [workers EXCEPT
                       ![w].stdout = Tail(@),
                       ![w].pc = IF line = "ERROR" THEN "wait" ELSE "readline"]
    /\ UNCHANGED <<checked, cancelled, reply>>
    /\ UNCHANGED <<tcvars, tdvars, dbgvars, xpvars>>

\* process.wait() returns
can_wait(w) == workers[w].pc = "wait" /\ exited(w)

\* data_pull_status after the test of return_code and the finally clause
after_wait(status, code) ==
    LET reported ==
            IF code = 0 /\ status.error = None
            THEN [status EXCEPT !.progress = 100,
                                !.status_text = "Data pull completed successfully!"]
            ELSE IF status.error = None
            THEN [status EXCEPT !.error = "Process failed with code and stderr",
                                !.status_text = "Data pull failed"]
            ELSE status
    IN  [reported EXCEPT !.in_progress = FALSE]

\* execute_data_pull from process.wait() to its return
execute_data_pull_wait(w) ==
    /\ can_wait(w)
    /\ data_pull_status' = after_wait(data_pull_status, return_code(workers[w].script))
    /\ workers' = [workers EXCEPT ![w].pc = "done"]
    /\ UNCHANGED <<checked, cancelled, reply>>
    /\ UNCHANGED <<tcvars, tdvars, dbgvars, xpvars>>

NextServer ==
    \/ start_data_pull_check
    \/ start_data_pull_thread
    \/ get_data_pull_status
    \/ cancel_data_pull
    \/ \E w \in Workers : execute_data_pull_popen(w)
    \/ \E w \in Workers : subprocess_writes(w)
    \/ \E w \in Workers : execute_data_pull_readline(w)
    \/ \E w \in Workers : execute_data_pull_wait(w)

InitServer == InitWith({<<>>})

SpecServer == InitServer /\ [][NextServer]_vars

\* ======================================================= debug_consolidator
\* debug_consolidator.py: debug_higher_tweet reads the raw file as the
\* consolidator does and simulates its thread detection. A text holds the
\* word Higher when one of its elements is "Higher".

DebugLines ==
    { Line(3, "1", Iso(60), <<"Higher">>),
      Line(3, "3", Twitter(60, 1), <<"Higher">>),
      Line(3, "", Twitter(120, 0), <<"Higher">>),
      Line(3, "2", Twitter(0, 0), <<"B">>),
      Line(3, "2", Twitter(120, 0), <<"B">>),
      Line(3, "3", Twitter(181, 1), <<"C">>),
      Line(3, "1", GarbageStamp, <<"A">>),
      Line(2, "2", Twitter(0, 0), <<>>) }

DebugInputs == SeqsUpTo(DebugLines, MaxDebugRows)

InitDebug == InitWith(DebugInputs)

\* 'Higher' in tweet['text']
has_higher(text) == \E i \in 1..Len(text) : text[i] = "Higher"

\* higher_tweet after the reading loop: the tweet of the last line with the
\* word, whether or not the line passed the filter; <<>> for None
higher_tweet_of(rows, nows) ==
    LET with_word == {i \in 1..Len(rows) : has_higher(strip(rows[i].text))}
    IN  IF with_word = {} THEN <<>>
        ELSE LET last == CHOOSE i \in with_word : \A j \in with_word : j <= i
             IN  <<RowTweet(rows[last], nows[last])>>

\* the inner loop of anchor i from position j on: a tweet is marked used as
\* soon as it is appended
RECURSIVE debug_inner(_, _, _, _, _)
debug_inner(ts, i, j, thread_tweets, used_tweet_ids) ==
    IF j > Len(ts) THEN [thread_tweets |-> thread_tweets, used_tweet_ids |-> used_tweet_ids]
    ELSE IF ts[j].id \in used_tweet_ids
         THEN debug_inner(ts, i, j + 1, thread_tweets, used_tweet_ids)
    ELSE IF within_window(Abs(ts[i].timestamp - ts[j].timestamp))
         THEN debug_inner(ts, i, j + 1, Append(thread_tweets, ts[j]),
                          used_tweet_ids \cup {ts[j].id})
    ELSE debug_inner(ts, i, j + 1, thread_tweets, used_tweet_ids)

\* the outer loop from position i on: the anchor is marked used before its
\* inner loop runs
RECURSIVE debug_scan(_, _, _, _)
debug_scan(ts, i, found, used_tweet_ids) ==
    IF i > Len(ts) THEN [threads |-> found, used_tweet_ids |-> used_tweet_ids]
    ELSE IF ts[i].id \in used_tweet_ids THEN debug_scan(ts, i + 1, found, used_tweet_ids)
    ELSE LET inner == debug_inner(ts, i, i + 1, <<ts[i]>>, used_tweet_ids \cup {ts[i].id})
         IN  IF Len(inner.thread_tweets) > 1
             THEN debug_scan(ts, i + 1, Append(found, sort_thread(inner.thread_tweets)),
                             inner.used_tweet_ids)
             ELSE debug_scan(ts, i + 1, found, inner.used_tweet_ids)

\* the reading loop and the sort; a line without a text field ends the
\* script with the AttributeError
debug_read ==
    /\ dbg_pc = "idle"
    /\ \E nows \in NowReads(Len(csv_rows), ReadFallbacks(csv_rows), clock) :
        /\ clock' = LastRead(nows, ReadFallbacks(csv_rows), clock)
        /\ IF ReadRaises(csv_rows)
           THEN /\ dbg_pc' = "raised"
                /\ UNCHANGED <<dbg_tweets, dbg_higher_tweet>>
           ELSE /\ dbg_pc' = "sorted"
                /\ dbg_tweets' = read_tweets_from_csv(csv_rows, nows)
                /\ dbg_higher_tweet' = higher_tweet_of(csv_rows, nows)
    /\ UNCHANGED <<dbg_threads, dbg_standalone_tweets>>
    /\ UNCHANGED <<csv_rows, pc, runs, tweets, threads, standalone_tweets,
                   consolidated_posts, sort_keys, outfile, written, stdout, warnings,
                   error, prev>>
    /\ UNCHANGED <<tdvars, xpvars, apivars>>

\* `if higher_tweet:` and the simulated detection
debug_simulate ==
    /\ dbg_pc = "sorted"
    /\ IF dbg_higher_tweet = <<>>
       THEN /\ dbg_pc' = "not_found"
            /\ UNCHANGED <<dbg_threads, dbg_standalone_tweets>>
       ELSE LET scanned == debug_scan(dbg_tweets, 1, <<>>, {})
            IN  /\ dbg_pc' = "done"
                /\ dbg_threads' = scanned.threads
                /\ dbg_standalone_tweets' =
                       SelectSeq(dbg_tweets,
                                 LAMBDA tweet : tweet.id \notin scanned.used_tweet_ids)
    /\ UNCHANGED <<dbg_tweets, dbg_higher_tweet>>
    /\ UNCHANGED <<tcvars, tdvars, xpvars, apivars>>

NextDebug == debug_read \/ debug_simulate

SpecDebug == InitDebug /\ [][NextDebug]_vars

\* ================================================================ claims
\* what the claims speak of, stated on the input file and on the state

\* a line passes the id/text filter: both fields are there and non-empty,
\* the text after trimming
Eligible(row) ==
    /\ row.nfields = 3
    /\ row.tweet_id # ""
    /\ strip(row.text) # <<>>

EligibleRows == SelectSeq(csv_rows, Eligible)

\* a post as the input gives it: id, raw timestamp and trimmed text
PostOfRow(row) == [id |-> row.tweet_id, created_at |-> row.created_at, text |-> strip(row.text)]

PostOfTweet(tweet) == [id |-> tweet.id, created_at |-> tweet.created_at, text |-> tweet.text]

PostsOf(ts) == [i \in 1..Len(ts) |-> PostOfTweet(ts[i])]

\* the members of all the groups _detect_threads returned
Members == Flatten(threads) \o standalone_tweets

\* positions of main() at which _detect_threads has returned
Clustered == pc \in {"detected", "consolidated", "saved", "exit0"}

\* positions of main() at which _create_consolidated_posts has returned
Consolidated == pc \in {"consolidated", "saved", "exit0"}

MinInstant(thread) ==
    CHOOSE t \in {thread[i].timestamp : i \in 1..Len(thread)} :
        \A i \in 1..Len(thread) : t <= thread[i].timestamp

MaxInstant(thread) ==
    CHOOSE t \in {thread[i].timestamp : i \in 1..Len(thread)} :
        \A i \in 1..Len(thread) : t >= thread[i].timestamp

Chronological(thread) ==
    \A i, j \in 1..Len(thread) : i < j => thread[i].timestamp <= thread[j].timestamp

ThreadRecords == {p \in 1..Len(consolidated_posts) : consolidated_posts[p].is_thread}

\* the ways to name, for each thread, one thread record of the output, no
\* record twice
RecordOfThread ==
    {f \in [1..Len(threads) -> ThreadRecords] :
        \A k, l \in 1..Len(threads) : k # l => f[k] # f[l]}

RECURSIVE JoinTexts(_)
JoinTexts(texts) ==
    IF Len(texts) = 1 THEN texts[1]
    ELSE texts[1] \o <<"\n", "\n">> \o JoinTexts(Tail(texts))

\* C1: every line that passes the id/text filter is a member of exactly one
\* ConsolidatedPost: the members of the threads and the standalone tweets are,
\* with multiplicity, the lines that passed the filter, and there is one
\* record per thread and per standalone tweet.
C1_Partition ==
    Consolidated =>
        /\ SeqToBag(PostsOf(Members)) = SeqToBag([i \in 1..Len(EligibleRows) |->
                                                    PostOfRow(EligibleRows[i])])
        /\ Len(consolidated_posts) = Len(threads) + Len(standalone_tweets)

\* the posts at positions i and j of the working list have no third post
\* within the window of either
Isolated(i, j) ==
    \A k \in 1..Len(tweets) : k \notin {i, j} =>
        /\ Abs(tweets[k].timestamp - tweets[i].timestamp) > window_seconds
        /\ Abs(tweets[k].timestamp - tweets[j].timestamp) > window_seconds

\* C2: two otherwise isolated posts exactly window_seconds apart form one
\* thread of 2, and no thread holds a post window_seconds + 1 away from its
\* anchor (its newest member).
C2_WindowBoundary ==
    Clustered =>
        /\ \A i, j \in 1..Len(tweets) :
              ( /\ i < j
                /\ Abs(tweets[i].timestamp - tweets[j].timestamp) = window_seconds
                /\ Isolated(i, j) )
              => \E k \in 1..Len(threads) :
                    SeqToBag(threads[k]) = SeqToBag(<<tweets[i], tweets[j]>>)
        /\ \A k \in 1..Len(threads) : \A m \in 1..Len(threads[k]) :
              MaxInstant(threads[k]) - threads[k][m].timestamp # window_seconds + 1

\* C3: every thread has its record in the output, and the id and the
\* timestamp text of that record are those of a member with the earliest
\* instant of the thread.
C3_AnchorId ==
    Consolidated =>
        \E f \in RecordOfThread : \A k \in 1..Len(threads) :
            \E m \in 1..Len(threads[k]) :
                /\ threads[k][m].timestamp = MinInstant(threads[k])
                /\ consolidated_posts[f[k]].tweet_id = threads[k][m].id
                /\ consolidated_posts[f[k]].timestamp = threads[k][m].created_at
                /\ consolidated_posts[f[k]].thread_count = Len(threads[k])

\* a thread of three posts at three instants, the middle one with the
\* smallest id, anchored on its newest post, with its record in the output
C3_Witness ==
    /\ pc = "exit0"
    /\ \E k \in 1..Len(threads) :
        /\ Len(threads[k]) = 3
        /\ threads[k][1].timestamp < threads[k][2].timestamp
        /\ threads[k][2].timestamp < threads[k][3].timestamp
        /\ threads[k][2].id = "1"
        /\ threads[k][1].id = "3"
        /\ threads[k][3].id = "2"
        /\ \E p \in ThreadRecords : consolidated_posts[p].tweet_id = "3"

\* C4: the text of the record of every thread is the texts of its members in
\* ascending order of instant, joined by "\n\n" and nothing else.
C4_MergeOrder ==
    Consolidated =>
        \E f \in RecordOfThread : \A k \in 1..Len(threads) :
            /\ Chronological(threads[k])
            /\ consolidated_posts[f[k]].thread_count = Len(threads[k])
            /\ consolidated_posts[f[k]].text =
                   JoinTexts([m \in 1..Len(threads[k]) |-> threads[k][m].text])

\* three posts at three instants whose lines come in neither chronological
\* order in the file, merged oldest first
C4_Witness ==
    /\ pc = "exit0"
    /\ Len(csv_rows) = 3
    /\ csv_rows[1].created_at.wall = 60
    /\ csv_rows[2].created_at.wall = 120
    /\ csv_rows[3].created_at.wall = 0
    /\ Len(threads) = 1
    /\ Len(consolidated_posts) = 1
    /\ consolidated_posts[1].text = <<"C", "\n", "\n", "A", "\n", "\n", "B">>

\* C5: no two records of the output have the same id, whatever the ids of
\* the lines of the input.
C5_UniqueIds ==
    Consolidated =>
        \A p, q \in 1..Len(consolidated_posts) :
            p # q => consolidated_posts[p].tweet_id # consolidated_posts[q].tweet_id

\* the timestamp text is in one of the three formats of the normaliser
Parseable(created_at) == created_at.fmt \in {"twitter", "isofrac", "iso"}

\* the output is in non-increasing order of the keys of the final sort, and
\* the key of a record is the instant its timestamp text parses to (the
\* clock's value at that moment when it does not parse)
SortedNewestFirst ==
    /\ Len(sort_keys) = Len(consolidated_posts)
    /\ \A p \in 1..Len(consolidated_posts) :
          IF Parseable(consolidated_posts[p].timestamp)
          THEN sort_keys[p] = consolidated_posts[p].timestamp.wall
          ELSE sort_keys[p] \in NowSet
    /\ \A p, q \in 1..Len(consolidated_posts) : p < q => sort_keys[p] >= sort_keys[q]

\* the record stands for line i of the file
RecordOfRow(rec, i) ==
    /\ Eligible(csv_rows[i])
    /\ csv_rows[i].tweet_id = rec.tweet_id
    /\ csv_rows[i].created_at = rec.timestamp

InInputOrder(a, b) ==
    \E i, j \in 1..Len(csv_rows) : i < j /\ RecordOfRow(a, i) /\ RecordOfRow(b, j)

IsRecordOf(rec, thread) ==
    /\ rec.is_thread
    /\ rec.thread_count = Len(thread)
    /\ \E m \in 1..Len(thread) :
          /\ thread[m].timestamp = MinInstant(thread)
          /\ rec.tweet_id = thread[m].id
          /\ rec.timestamp = thread[m].created_at

IsRecordOfTweet(rec, tweet) ==
    /\ ~rec.is_thread
    /\ rec.thread_count = 1
    /\ rec.tweet_id = tweet.id
    /\ rec.timestamp = tweet.created_at
    /\ rec.text = tweet.text

\* the order two records had in the list the final sort was given: thread
\* records in the order of detection, then standalone records in the order
\* of the working list
InListOrder(a, b) ==
    /\ ~(~a.is_thread /\ b.is_thread)
    /\ (a.is_thread /\ b.is_thread) =>
          \E k, l \in 1..Len(threads) :
              k < l /\ IsRecordOf(a, threads[k]) /\ IsRecordOf(b, threads[l])
    /\ (~a.is_thread /\ ~b.is_thread) =>
          \E i, j \in 1..Len(standalone_tweets) :
              /\ i < j
              /\ IsRecordOfTweet(a, standalone_tweets[i])
              /\ IsRecordOfTweet(b, standalone_tweets[j])

\* C6 as stated: the output is newest first by the instant parsed from the
\* timestamp text, and records of equal instant are in the order their lines
\* have in the input file.
C6_TiesInInputOrder ==
    Consolidated =>
        /\ SortedNewestFirst
        /\ \A p, q \in 1..Len(consolidated_posts) :
              (p < q /\ sort_keys[p] = sort_keys[q])
              => InInputOrder(consolidated_posts[p], consolidated_posts[q])

\* C6 amended: the output is newest first by the instant parsed from the
\* timestamp text, and records of equal instant are in the order they had in
\* the list before the sort: thread records first, in the order the threads
\* were detected, then standalone records in the order of the working list.
C6_TiesInListOrder ==
    Consolidated =>
        /\ SortedNewestFirst
        /\ \A p, q \in 1..Len(consolidated_posts) :
              (p < q /\ sort_keys[p] = sort_keys[q])
              => InListOrder(consolidated_posts[p], consolidated_posts[q])

\* two records of equal instant that are not in the order of their lines
C6_Witness ==
    /\ pc = "exit0"
    /\ \E p, q \in 1..Len(consolidated_posts) :
          /\ p < q
          /\ sort_keys[p] = sort_keys[q]
          /\ InListOrder(consolidated_posts[p], consolidated_posts[q])
          /\ ~InInputOrder(consolidated_posts[p], consolidated_posts[q])

\* an invocation has ended, and one before it
Repeated == prev.ran /\ pc \in {"exit0", "exit1"}

ThreadPosts == [k \in 1..Len(threads) |-> PostsOf(threads[k])]

\* this invocation ended as the one before: the same threads, the same
\* standalone posts and the same output in the same order
SameAsBefore ==
    /\ prev.pc = pc
    /\ [k \in 1..Len(prev.threads) |-> PostsOf(prev.threads[k])] = ThreadPosts
    /\ PostsOf(prev.standalone_tweets) = PostsOf(standalone_tweets)
    /\ prev.consolidated_posts = consolidated_posts

\* C7 as stated: two invocations on the same file give the same threads,
\* standalone posts and output order, whatever the clock shows.
C7_Deterministic == Repeated => SameAsBefore

AllParseable ==
    \A i \in 1..Len(csv_rows) : Eligible(csv_rows[i]) => Parseable(csv_rows[i].created_at)

\* C7 amended: two invocations on the same file give the same threads,
\* standalone posts and output order whatever the clock shows, when the
\* created_at of every line that passes the filter is in one of the three
\* formats.
C7_DeterministicParsed == (Repeated /\ AllParseable) => SameAsBefore

\* a second invocation that found a thread and a standalone post again
C7_Witness ==
    /\ Repeated
    /\ AllParseable
    /\ pc = "exit0"
    /\ Len(threads) = 1
    /\ Len(standalone_tweets) = 1
    /\ SameAsBefore

\* C8: a line that passes the filter and whose created_at is empty or in none
\* of the formats causes no error, is a member of the output with a value of
\* the clock as its instant, and is a standalone record of count 1 when every
\* other post is more than window_seconds from that instant.
C8_FallbackKept ==
    /\ pc \in {"raised", "exit1"} =>
          \/ \E i \in 1..Len(csv_rows) : csv_rows[i].nfields < 3
          \/ EligibleRows = <<>>
    /\ Consolidated =>
          \A i \in 1..Len(csv_rows) :
              (Eligible(csv_rows[i]) /\ ~Parseable(csv_rows[i].created_at)) =>
                  /\ \E m \in 1..Len(Members) :
                        /\ PostOfTweet(Members[m]) = PostOfRow(csv_rows[i])
                        /\ Members[m].timestamp \in NowSet
                  /\ \A t \in 1..Len(tweets) :
                        ( /\ PostOfTweet(tweets[t]) = PostOfRow(csv_rows[i])
                          /\ \A u \in 1..Len(tweets) : u # t =>
                                Abs(tweets[u].timestamp - tweets[t].timestamp) > window_seconds )
                        => \E p \in 1..Len(consolidated_posts) :
                              IsRecordOfTweet(consolidated_posts[p], tweets[t])

NoDataError == "No tweets found in CSV file"

\* C9: when no line passes the filter the invocation never clusters, raises
\* the no-data error, prints it in an ERROR: line, writes no file and prints
\* no SUCCESS: line.
C9_EmptyInputTerminal ==
    EligibleRows = <<>> =>
        /\ pc \notin {"loaded", "detected", "consolidated", "saved", "exit0"}
        /\ ~written
        /\ \A l \in 1..Len(stdout) : stdout[l].prefix # "SUCCESS"
        /\ pc = "raised" => error = NoDataError
        /\ pc = "exit1" => stdout[Len(stdout)] = Printed("ERROR", NoDataError)

\* C10: no line makes the loader raise, whatever fields it lacks; the lines
\* without id or text are left out and all the others are loaded.
C10_MalformedNeverRaises ==
    /\ pc \in {"raised", "exit1"} => error = NoDataError
    /\ pc \in {"loaded", "detected", "consolidated", "saved", "exit0"} =>
          SeqToBag(PostsOf(tweets)) =
              SeqToBag([i \in 1..Len(EligibleRows) |-> PostOfRow(EligibleRows[i])])

\* an id that is empty once the surrounding whitespace is trimmed
BlankId(id) == id \in {"", " "}

\* C11: a line whose id or whose text is empty after trimming is not in the
\* working set, and no record of the output has an id or a text that is empty
\* or made of whitespace only.
C11_NoBlankIdOrText ==
    /\ \A t \in 1..Len(tweets) :
          ~BlankId(tweets[t].id) /\ strip(tweets[t].text) # <<>>
    /\ \A p \in 1..Len(consolidated_posts) :
          /\ ~BlankId(consolidated_posts[p].tweet_id)
          /\ strip(consolidated_posts[p].text) # <<>>

\* the post at position t of the working list has no other post within the
\* window
Alone(t) ==
    \A u \in 1..Len(tweets) : u # t =>
        Abs(tweets[u].timestamp - tweets[t].timestamp) > window_seconds

\* C12: a record is a thread exactly when its member count is at least 2; a
\* post with no other post within the window is one standalone record of
\* count 1; every group of 2 or more found by the scan is one thread record
\* whose count is the size of the group.
C12_ThreadIffMany ==
    Consolidated =>
        /\ \A p \in 1..Len(consolidated_posts) :
              consolidated_posts[p].is_thread <=> consolidated_posts[p].thread_count >= 2
        /\ Len(consolidated_posts) = Len(threads) + Len(standalone_tweets)
        /\ \A t \in 1..Len(tweets) :
              Alone(t) => \E p \in 1..Len(consolidated_posts) :
                              IsRecordOfTweet(consolidated_posts[p], tweets[t])
        /\ \E f \in RecordOfThread : \A k \in 1..Len(threads) :
              /\ Len(threads[k]) >= 2
              /\ consolidated_posts[f[k]].thread_count = Len(threads[k])

\* the posts of the working list at the positions in G lie within the window
\* of the newest of them, and every other post is more than the window from
\* every other post
GroupAndLoners(G) ==
    /\ Cardinality(G) >= 2
    /\ \A g, h \in G : Abs(tweets[g].timestamp - tweets[h].timestamp) <= window_seconds
    /\ \A o \in (1..Len(tweets)) \ G : Alone(o)

\* C13: when a group of posts lies within the window of its newest post and
\* every other post is more than the window from every other post, the output
\* is one thread holding the whole group and one standalone record per other
\* post, newest first.
C13_GroupScenario ==
    Consolidated =>
        \A G \in SUBSET (1..Len(tweets)) :
            GroupAndLoners(G) =>
                /\ Len(threads) = 1
                /\ SeqToBag(threads[1]) = SeqToBag(Pick(tweets, G, 1))
                /\ SeqToBag(standalone_tweets) =
                       SeqToBag(Pick(tweets, (1..Len(tweets)) \ G, 1))
                /\ Len(consolidated_posts) = 1 + Len(tweets) - Cardinality(G)
                /\ \E p \in 1..Len(consolidated_posts) :
                      IsRecordOf(consolidated_posts[p], threads[1])
                /\ \A o \in (1..Len(tweets)) \ G :
                      \E p \in 1..Len(consolidated_posts) :
                          IsRecordOfTweet(consolidated_posts[p], tweets[o])
                /\ SortedNewestFirst

\* C14 as stated: the final sort applied to its own output returns the same
\* list in the same order, for every output, also one with records whose
\* timestamp text does not parse.
C14_SortIdempotent == pc = "sorted_again" => consolidated_posts = prev.consolidated_posts

RecordsParseable ==
    \A p \in 1..Len(consolidated_posts) : Parseable(consolidated_posts[p].timestamp)

\* C14 amended: the final sort applied to its own output returns the same
\* list in the same order, for every output whose records all have a
\* timestamp text in one of the three formats.
C14_SortIdempotentParsed ==
    (pc = "sorted_again" /\ RecordsParseable) => consolidated_posts = prev.consolidated_posts

\* an output of a thread record and a standalone record, all parseable,
\* sorted once more
C14_Witness ==
    /\ pc = "sorted_again"
    /\ RecordsParseable
    /\ Len(consolidated_posts) >= 2
    /\ \E p, q \in 1..Len(consolidated_posts) :
          consolidated_posts[p].is_thread /\ ~consolidated_posts[q].is_thread
    /\ consolidated_posts = prev.consolidated_posts

\* C15: the members of every thread are within window_seconds of its newest
\* member, so that any two members are at most window_seconds apart.
C15_ThreadSpan ==
    Clustered =>
        \A k \in 1..Len(threads) :
            /\ \A m \in 1..Len(threads[k]) :
                  within_window(MaxInstant(threads[k]) - threads[k][m].timestamp)
            /\ \A m, n \in 1..Len(threads[k]) :
                  Abs(threads[k][m].timestamp - threads[k][n].timestamp) <= window_seconds

\* a thread of three posts whose oldest and newest are exactly the window
\* apart
C15_Witness ==
    /\ pc = "exit0"
    /\ \E k \in 1..Len(threads) :
          /\ Len(threads[k]) = 3
          /\ MaxInstant(threads[k]) - MinInstant(threads[k]) = window_seconds

\* the lines a run prints when it goes through every stage
FullRun ==
    <<Printed("STATUS", "Starting thread consolidation..."),
      Printed("STATUS", "Processing file"),
      Printed("STATUS", "Loaded tweets"),
      Printed("STATUS", "Detected threads and standalone tweets"),
      Printed("STATUS", "Consolidated to total posts"),
      Printed("STATUS", "Saved consolidated posts"),
      Printed("SUCCESS", "processed file")>>

\* C16: a run goes through Loaded, Clustered, Classified, Merged,
\* Deduplicated, Sorted and Emitted in that order, each once: the lines it
\* prints are the lines of the stages in order, none twice; SUCCESS: is
\* printed last and only when the output is saved; and a run that ends with
\* SUCCESS: has the result of each stage: a working list, its groups, one
\* record per group, no id twice, newest first, the file written.
C16_StagesInOrder ==
    /\ pc \notin {"raised", "exit1"} => stdout = SubSeq(FullRun, 1, Len(stdout))
    /\ \A l \in 1..Len(stdout) : stdout[l].prefix = "SUCCESS" => (written /\ l = Len(FullRun))
    /\ pc = "exit0" =>
          /\ stdout = FullRun
          /\ tweets # <<>>
          /\ Members # <<>>
          /\ Len(consolidated_posts) = Len(threads) + Len(standalone_tweets)
          /\ Cardinality({consolidated_posts[p].tweet_id : p \in 1..Len(consolidated_posts)})
                 = Len(consolidated_posts)
          /\ SortedNewestFirst
          /\ written
          /\ outfile = saved_rows(consolidated_posts)

\* the group is one of the threads the detector returned
Accepted(group) ==
    \E d \in 1..Len(td_detected_threads) :
        td_detected_threads[d].original_tweets =
            [m \in 1..Len(group) |-> [id |-> group[m].id, text |-> group[m].text,
                                      timestamp |-> group[m].timestamp]]

Elapsed(group) == group[Len(group)].timestamp - group[1].timestamp

RejectedGroups == {g \in 1..Len(td_thread_groups) : ~Accepted(td_thread_groups[g])}

\* C17: a time-proximity group is accepted as a thread exactly when it has at
\* least 2 posts and its elapsed time is <= 60 seconds, or <= 120 seconds
\* with the topic-coherence check holding; every member of a group that is
\* not accepted is in the standalone list; a group of 1 is never a thread.
C17_AcceptanceRule ==
    td_pc = "returned" =>
        /\ \A g \in 1..Len(td_thread_groups) :
              LET group == td_thread_groups[g]
              IN  /\ Accepted(group) <=>
                        /\ Len(group) >= 2
                        /\ \/ Elapsed(group) <= 60
                           \/ Elapsed(group) <= 120 /\ has_topic_coherence(group)
                  /\ Len(group) = 1 => ~Accepted(group)
                  /\ ~Accepted(group) =>
                        \A m \in 1..Len(group) : group[m] \in Range(td_standalone_tweets)
        /\ Len(td_detected_threads) = Len(td_thread_groups) - Cardinality(RejectedGroups)
        /\ Len(td_standalone_tweets) =
               Sum([g \in 1..Len(td_thread_groups) |->
                       IF g \in RejectedGroups THEN Len(td_thread_groups[g]) ELSE 0])

\* a file of a group accepted for its coherence, more than a minute long,
\* and a group of one
C17_Witness ==
    /\ td_pc = "returned"
    /\ \E g \in 1..Len(td_thread_groups) :
          /\ Accepted(td_thread_groups[g])
          /\ Elapsed(td_thread_groups[g]) > 60
    /\ Len(td_standalone_tweets) = 1

\* the members of the group whose text holds a term of the set
MembersWithTerm(term_group, group) ==
    {m \in 1..Len(group) : \E term \in term_group : term_in(term, lower(group[m].text))}

\* the hashtags and mentions of the group are all different
NoRepeatedKeyTerm(group) ==
    LET terms == key_terms(group_texts(group))
    IN  \A i, j \in 1..Len(terms) : i # j => terms[i] # terms[j]

\* C18: a group that needs the coherence check (elapsed time over 60 and at
\* most 120 seconds), in which no hashtag or mention is repeated, fewer than
\* 2 members mention the partner brand and no keyword set has terms in 2
\* distinct members, has no coherence signal and is not accepted.
C18_KeywordMembers ==
    td_pc = "returned" =>
        \A g \in 1..Len(td_thread_groups) :
            LET group == td_thread_groups[g]
            IN  ( /\ Len(group) >= 2
                  /\ Elapsed(group) > 60
                  /\ Elapsed(group) <= 120
                  /\ NoRepeatedKeyTerm(group)
                  /\ Cardinality(MembersWithTerm({"bybit"}, group)) < 2
                  /\ \A term_group \in {business_terms, tech_terms, event_terms} :
                        Cardinality(MembersWithTerm(term_group, group)) < 2 )
                => ~Accepted(group)

\* the lines of the file are complete, with distinct non-empty ids, non-empty
\* texts and timestamps in the platform format with one UTC offset
PlainInput ==
    /\ \A i \in 1..Len(csv_rows) :
          /\ csv_rows[i].nfields = 3
          /\ ~BlankId(csv_rows[i].tweet_id)
          /\ strip(csv_rows[i].text) # <<>>
          /\ csv_rows[i].created_at.fmt = "twitter"
    /\ \A i, j \in 1..Len(csv_rows) :
          /\ i # j => csv_rows[i].tweet_id # csv_rows[j].tweet_id
          /\ csv_rows[i].created_at.off = csv_rows[j].created_at.off

\* C19: on such a file every thread the detector accepts has the member set
\* of one thread of the engine's scan.
C19_DetectorStricter ==
    (PlainInput /\ td_pc = "returned" /\ pc = "detected") =>
        \A d \in 1..Len(td_detected_threads) :
            \E k \in 1..Len(threads) :
                {td_detected_threads[d].original_tweets[m].id :
                    m \in 1..Len(td_detected_threads[d].original_tweets)}
                = {threads[k][m].id : m \in 1..Len(threads[k])}

\* a file on which the detector accepts one thread and the engine finds it
C19_Witness ==
    /\ PlainInput
    /\ td_pc = "returned"
    /\ pc = "detected"
    /\ Len(csv_rows) = 3
    /\ Len(td_detected_threads) = 1
    /\ Len(td_standalone_tweets) = 1
    /\ Len(threads) = 1

\* the calls of _parse_timestamp a run has made that returned the current
\* time: one per line read, one per record sorted
FallbacksSoFar ==
    Cardinality({i \in 1..Len(csv_rows) : ~Parseable(csv_rows[i].created_at)}) +
    (IF Consolidated
     THEN Cardinality({p \in 1..Len(consolidated_posts) :
                          ~Parseable(consolidated_posts[p].timestamp)})
     ELSE 0)

\* C20: every return of the current time by the normaliser comes with one
\* warning, for an empty string as for a string in none of the formats.
C20_FallbackWarns ==
    pc \in {"loaded", "detected", "consolidated", "saved", "exit0"} =>
        warnings = FallbacksSoFar

\* lines i and j are complete, in the platform format, with the same date
\* and time fields and different UTC offsets, and with different ids
SameFieldsOtherOffset(i, j) ==
    /\ csv_rows[i].nfields = 3 /\ csv_rows[j].nfields = 3
    /\ Eligible(csv_rows[i]) /\ Eligible(csv_rows[j])
    /\ csv_rows[i].tweet_id # csv_rows[j].tweet_id
    /\ csv_rows[i].created_at.fmt = "twitter"
    /\ csv_rows[j].created_at.fmt = "twitter"
    /\ csv_rows[i].created_at.wall = csv_rows[j].created_at.wall
    /\ csv_rows[i].created_at.off # csv_rows[j].created_at.off

\* C21: two posts whose timestamps have equal date and time fields and
\* different offsets have the same instant, in the engine and in the
\* detector, and are in the same cluster of each.
C21_OffsetDropped ==
    \A i, j \in 1..Len(csv_rows) :
        SameFieldsOtherOffset(i, j) =>
            /\ pc = "detected" =>
                  /\ \A t, u \in 1..Len(tweets) :
                        (tweets[t].id = csv_rows[i].tweet_id /\ tweets[u].id = csv_rows[j].tweet_id
                         /\ tweets[t].created_at = csv_rows[i].created_at
                         /\ tweets[u].created_at = csv_rows[j].created_at)
                        => tweets[t].timestamp = tweets[u].timestamp
                  /\ \E k \in 1..Len(threads) :
                        {csv_rows[i].tweet_id, csv_rows[j].tweet_id}
                            \subseteq {threads[k][m].id : m \in 1..Len(threads[k])}
            /\ td_pc \in {"grouped", "returned"} =>
                  \E g \in 1..Len(td_thread_groups) :
                      \E m, n \in 1..Len(td_thread_groups[g]) :
                          /\ td_thread_groups[g][m].id = csv_rows[i].tweet_id
                          /\ td_thread_groups[g][n].id = csv_rows[j].tweet_id
                          /\ td_thread_groups[g][m].timestamp = td_thread_groups[g][n].timestamp

\* the positions the inner loop of anchor i would append if it ended at the
\* first unclaimed post outside the window
RECURSIVE JoinedUntilOutside(_, _, _, _)
JoinedUntilOutside(ts, i, j, claimed) ==
    IF j > Len(ts) THEN {}
    ELSE IF ts[j].id \in claimed THEN JoinedUntilOutside(ts, i, j + 1, claimed)
    ELSE IF Abs(ts[i].timestamp - ts[j].timestamp) <= window_seconds
         THEN {j} \cup JoinedUntilOutside(ts, i, j + 1, claimed)
         ELSE {}

\* the scan of _detect_threads with that inner loop
RECURSIVE ScanUntilOutside(_, _, _, _)
ScanUntilOutside(ts, i, found, claimed) ==
    IF i > Len(ts) THEN [threads |-> found, thread_tweet_ids |-> claimed]
    ELSE IF ts[i].id \in claimed THEN ScanUntilOutside(ts, i + 1, found, claimed)
    ELSE LET joined == JoinedUntilOutside(ts, i, i + 1, claimed)
             thread_tweets == <<ts[i]>> \o Pick(ts, joined, 1)
         IN  IF Len(thread_tweets) > 1
             THEN ScanUntilOutside(ts, i + 1,
                      Append(found, Permute(thread_tweets,
                                            list_sort(Timestamps(thread_tweets), FALSE))),
                      claimed \cup {ts[j].id : j \in joined \cup {i}})
             ELSE ScanUntilOutside(ts, i + 1, found, claimed)

\* C23: the scan that ends at the first unclaimed post outside the window
\* gives the threads and the standalone posts that _detect_threads gave.
C23_EarlyStopSame ==
    Clustered =>
        LET early == ScanUntilOutside(tweets, 1, <<>>, {})
        IN  /\ threads = early.threads
            /\ standalone_tweets =
                   SelectSeq(tweets, LAMBDA tweet : tweet.id \notin early.thread_tweet_ids)

\* a working list in which a scan ends early with posts left unvisited, and
\* a thread found after it
C23_Witness ==
    /\ pc = "exit0"
    /\ Len(tweets) >= 4
    /\ tweets[1].timestamp - tweets[2].timestamp > window_seconds
    /\ Len(threads) = 1
    /\ Len(standalone_tweets) >= 1

\* the grouping as sets of ids: the member sets of the threads and the set
\* of the standalone posts
IdPartition(ths, alone) ==
    [threads |-> {{ths[k][m].id : m \in 1..Len(ths[k])} : k \in 1..Len(ths)},
     standalone |-> {alone[i].id : i \in 1..Len(alone)}]

DistinctIds ==
    \A i, j \in 1..Len(csv_rows) : i # j => csv_rows[i].tweet_id # csv_rows[j].tweet_id

\* C24: for a file with distinct ids and parseable timestamps, the threads
\* and the standalone posts, as sets of ids, are the same when the lines are
\* given in another order.
C24_OrderIndependent ==
    (Repeated /\ DistinctIds /\ AllParseable) =>
        /\ prev.pc = pc
        /\ IdPartition(prev.threads, prev.standalone_tweets)
               = IdPartition(threads, standalone_tweets)

\* a second run on the lines in another order, which finds the same thread
\* with its members of equal instant in another order
C24_Witness ==
    /\ Repeated
    /\ DistinctIds
    /\ AllParseable
    /\ pc = "exit0"
    /\ Len(threads) = 1
    /\ Len(threads[1]) = 3
    /\ prev.threads # threads
    /\ IdPartition(prev.threads, prev.standalone_tweets)
           = IdPartition(threads, standalone_tweets)

\* the post at position i of the working list is a member of a thread
InThread(i) ==
    \E k \in 1..Len(threads) : \E m \in 1..Len(threads[k]) : threads[k][m] = tweets[i]

\* no two standalone posts are within the window of each other
NoCloseStandalone ==
    \A i, j \in 1..Len(standalone_tweets) :
        i # j => Abs(standalone_tweets[i].timestamp - standalone_tweets[j].timestamp)
                     > window_seconds

\* C25: no two standalone posts are within window_seconds of each other, and
\* of two eligible posts with distinct ids at most window_seconds apart at
\* least one is a member of a thread.
C25_CloseNotBothAlone ==
    Clustered =>
        /\ NoCloseStandalone
        /\ \A i, j \in 1..Len(tweets) :
              ( /\ tweets[i].id # tweets[j].id
                /\ Abs(tweets[i].timestamp - tweets[j].timestamp) <= window_seconds )
              => (InThread(i) \/ InThread(j))

\* C30: the detection debug_higher_tweet simulates gives, on its own working
\* list, the threads and the list of standalone tweets _detect_threads
\* gives on that list.
C30_DebugSameAsDetect ==
    dbg_pc = "done" =>
        /\ dbg_threads = detect_threads(dbg_tweets).threads
        /\ dbg_standalone_tweets = detect_threads(dbg_tweets).standalone_tweets

\* C22: whatever pages were saved, by one pull or by several on the same
\* file, no two rows of the raw CSV have the same tweet_id.
C22_NoRepeatedId ==
    \A i, j \in 1..Len(raw_file.rows) :
        i # j => raw_file.rows[i].tweet_id # raw_file.rows[j].tweet_id

\* the tweets of the pages from position p on that are from the target
\* account, no retweets and in the date range, up to the first tweet before
\* the start date
RECURSIVE qualifying(_, _, _)
qualifying(responses, end_date, p) ==
    IF p > Len(responses) THEN <<>>
    ELSE LET filtered == filter_page(responses[p].tweets, end_date, 1, <<>>)
         IN  IF filtered.reached_start THEN filtered.tweets_in_range
             ELSE filtered.tweets_in_range \o qualifying(responses, end_date, p + 1)

\* get_user_tweets_by_username has returned to main()
Returned == xp_pc \in {"exit0", "exit1"} /\ xp_stdout # "ERROR:request failed"

\* C29: the list get_user_tweets_by_username returns holds every qualifying
\* tweet of every page the API returned, the page with has_next_page false
\* included, up to the first tweet before the start date.
C29_ReturnsAllQualifying ==
    Returned => xp_all_tweets = qualifying(xp_responses, xp_end_date, 1)

\* the workers that have not returned, each with its subprocess
Running == {w \in Workers : workers[w].pc # "done"}

\* C26: at no time is more than one execute_data_pull thread running.
C26_OneWorker == Cardinality(Running) <= 1

\* the status reports a completed pull
ReportsCompleted(status) ==
    \/ status.progress = 100 /\ status.status_text = "Data pull completed successfully!"
    \/ status.result # None

\* the pull the status describes, the last one started, has been cancelled
LastPullCancelled == workers # <<>> /\ Len(workers) \in cancelled

\* a step of the worker of a cancelled pull taken after a later pull has
\* started
StaleStep(w) ==
    /\ w \in cancelled
    /\ w < Len(workers)
    /\ workers'[w].pc # workers[w].pc \/ workers'[w].stdout # workers[w].stdout

\* C27: once a pull is cancelled the status never reports it as completed,
\* and the worker of a cancelled pull changes nothing in the status of a
\* pull started after it.
C27_CancelledStaysCancelled ==
    /\ [](LastPullCancelled => ~ReportsCompleted(data_pull_status))
    /\ [][\A w \in Workers : StaleStep(w) => data_pull_status' = data_pull_status]_vars

\* worker w can take no step and neither can its subprocess
Stopped(w) ==
    /\ workers[w].pc # "init"
    /\ ~can_write(w)
    /\ ~can_readline(w)
    /\ ~can_wait(w)

\* C28: a worker stops only by returning, which sets in_progress to False:
\* it is never left waiting for output of a subprocess that cannot write.
C28_PullEnds ==
    \A w \in Workers : Stopped(w) => workers[w].pc = "done"

====
